---- MODULE Spec2Model ----
(***************************************************************************)
(* A model of the Autotune123 recommendation engine (autotune_engine.py)   *)
(* and of its caller and profile applier (autotune.py).                    *)
(*                                                                         *)
(* Units.  Timestamps are whole minutes since midnight of the first day of *)
(* the window.  Glucose values and deviations are mg/dL.  Basal rates are  *)
(* thousandths of a unit per hour (0.8 U/h is 800).  ISF values of the     *)
(* recommendation records are tenths of mg/dL/U.  Text (time labels and    *)
(* parameter names) is a sequence of one-character strings, so that split, *)
(* int() and the substring tests are computed and not assumed.             *)
(***************************************************************************)
EXTENDS Integers, Sequences, FiniteSets, TLC

(***************************************************************************)
(* Bounds of the model.                                                    *)
(***************************************************************************)
MaxReadings == 4
MaxTreatments == 1
MaxTune == 4
MaxBasal == 2
MaxFetched == 11
MaxRows == 3

(***************************************************************************)
(* Constants of the program.                                               *)
(***************************************************************************)
MaxGapMinutes == 15
MinReadings == 10
DefaultSens == 50
DefaultCarbRatio == 10
CarbFactor == 50
DefaultRate == 500
IsfThreshold == 5
MinPointsAggressive == 2
ThresholdAggressive == 10
MinPointsStandard == 3
ThresholdStandard == 20
MinRate == 100
MaxRate == 5000

(***************************************************************************)
(* Text.                                                                   *)
(***************************************************************************)
Digits == <<"0", "1", "2", "3", "4", "5", "6", "7", "8", "9">>

IsDigit(c) == \E i \in 1..10 : Digits[i] = c

DigitVal(c) == (CHOOSE i \in 1..10 : Digits[i] = c) - 1

IsAlpha(c) ==
    c \in {"a", "b", "c", "d", "e", "f", "g", "h", "i", "j", "k", "l", "m",
           "n", "o", "p", "q", "r", "s", "t", "u", "v", "w", "x", "y", "z",
           "A", "B", "C", "D", "E", "F", "G", "H", "I", "J", "K", "L", "M",
           "N", "O", "P", "Q", "R", "S", "T", "U", "V", "W", "X", "Y", "Z"}

\* The index of the first ":" of s, or Len(s) + 1 when s holds none.
FirstColon(s) ==
    IF \E i \in 1..Len(s) : s[i] = ":"
    THEN CHOOSE i \in 1..Len(s) : s[i] = ":" /\ \A j \in 1..(i - 1) : s[j] # ":"
    ELSE Len(s) + 1

\* s.split(':')[0]
SplitHead(s) == SubSeq(s, 1, FirstColon(s) - 1)

\* s.split(':')[1:] joined again by ':' (the text after the first colon).
SplitTail(s) == SubSeq(s, FirstColon(s) + 1, Len(s))

RECURSIVE DigitsValue(_)
DigitsValue(s) ==
    IF s = <<>> THEN 0
    ELSE 10 * DigitsValue(SubSeq(s, 1, Len(s) - 1)) + DigitVal(s[Len(s)])

\* Python's int(text) for text without blanks: an optional sign and at least
\* one digit; anything else is a ValueError (ok = FALSE).
ParseInt(s) ==
    LET signed == s # <<>> /\ s[1] \in {"-", "+"}
        body == IF signed THEN Tail(s) ELSE s
    IN  IF body = <<>> \/ \E i \in 1..Len(body) : ~IsDigit(body[i])
        THEN [ok |-> FALSE, v |-> 0]
        ELSE [ok |-> TRUE,
              v |-> IF signed /\ s[1] = "-" THEN 0 - DigitsValue(body)
                    ELSE DigitsValue(body)]

\* "needle in text" of Python.
Contains(text, needle) ==
    \E i \in 0..(Len(text) - Len(needle)) :
        SubSeq(text, i + 1, i + Len(needle)) = needle

IsfName == <<"I", "S", "F", "[", "m", "g", "/", "d", "L", "/", "U", "]">>
CarbRatioName == <<"C", "a", "r", "b", "R", "a", "t", "i", "o", "(", "g", "/", "U", ")">>
CarbRatioWord == <<"C", "a", "r", "b", "R", "a", "t", "i", "o">>

T0000 == <<"0", "0", ":", "0", "0">>
T1000 == <<"1", "0", ":", "0", "0">>
T2300 == <<"2", "3", ":", "0", "0">>
TBad == <<"x", "x", ":", "0", "0">>

(***************************************************************************)
(* Arithmetic.                                                             *)
(***************************************************************************)
RECURSIVE SeqSum(_)
SeqSum(s) == IF s = <<>> THEN 0 ELSE Head(s) + SeqSum(Tail(s))

Min(a, b) == IF a < b THEN a ELSE b

Max(a, b) == IF a > b THEN a ELSE b

\* datetime.hour of a timestamp.
HourOf(ts) == (ts \div 60) % 24

\* round(x, 2) for x given in ten-thousandths; the result is in hundredths.
\* A remainder of exactly one half is a tie of the decimal value, which the
\* float decides by its binary neighbour; the rates of RateSet produce none.
RoundHundredths(v) ==
    LET q == v \div 100
        r == v % 100
    IN  IF r > 50 \/ (r = 50 /\ q % 2 = 1) THEN q + 1 ELSE q

(***************************************************************************)
(* State.                                                                  *)
(***************************************************************************)
VARIABLES
    remote,             \* the Nightscout site: what each endpoint answers
    config,             \* AutotuneConfig of the run
    aggressive_mode,    \* AutotuneEngine.aggressive_mode
    bg_readings,        \* List[BGReading], as the client returned it
    treatments,         \* List[Treatment], as the client returned it
    profile,            \* the therapy profile the engine reads
    deviations_df,      \* the rows calculate_deviations produced
    recommendations,    \* the records _calculate_recommendations produced
    second_recommendations, \* the records of a second call on the same inputs
    fetches,            \* requests issued by this run, per endpoint
    result,             \* what run_autotune returned
    pc                  \* position of the engine's caller

engineVars == <<remote, config, aggressive_mode, bg_readings, treatments,
                profile, deviations_df, recommendations, second_recommendations,
                fetches, result, pc>>

\* create_adjusted_profile.  A profile document is a dict whose isfProfile
\* and carb_ratios values are references to nested objects of the heap.
VARIABLES
    heap,               \* the nested objects: reference -> value held
    current_profile,    \* the caller's document (its top-level dict)
    autotune_recomm,    \* the rows handed to create_adjusted_profile
    returned_profile,   \* the document create_adjusted_profile returned
    outcome             \* "call", then "ok" or "except" (the handler ran)

applierVars == <<heap, current_profile, autotune_recomm, returned_profile, outcome>>

\* run_modern on the one Autotune object the UI shares.
VARIABLES
    autotune_engine,    \* Autotune.autotune_engine, shared by the callers
    threads,            \* per caller: position, arguments and locals
    files               \* autotune_results: the saved result per start date

modernVars == <<autotune_engine, threads, files>>

NoDocument == [keys |-> {}, isfProfile |-> 0, carb_ratios |-> 0, carb_ratio |-> 0,
               basalprofile |-> <<>>]

ApplierIdle ==
    /\ heap = <<>>
    /\ current_profile = NoDocument
    /\ autotune_recomm = <<>>
    /\ returned_profile = NoDocument
    /\ outcome = "idle"

NoEngine == [built |-> FALSE, url |-> "", token |-> "", aggressive |-> FALSE]

ModernIdle ==
    /\ autotune_engine = NoEngine
    /\ threads = <<>>
    /\ files = {}

EngineIdle ==
    /\ remote = [entries |-> <<>>, treatments |-> <<>>, profile |-> <<>>, failing |-> {}]
    /\ config = [start_date |-> "", end_date |-> ""]
    /\ aggressive_mode = FALSE
    /\ bg_readings = <<>>
    /\ treatments = <<>>
    /\ profile = [keys |-> {}, sens |-> <<>>, carbratio |-> <<>>, basal |-> <<>>]
    /\ deviations_df = <<>>
    /\ recommendations = <<>>
    /\ second_recommendations = <<>>
    /\ fetches = [entries |-> 0, treatments |-> 0, profile |-> 0]
    /\ result = [status |-> "none"]
    /\ pc = "idle"

(***************************************************************************)
(* NightscoutClient.                                                       *)
(***************************************************************************)
\* sorted(items, key=lambda x: x.timestamp): a stable insertion sort.
RECURSIVE InsertByTimestamp(_, _)
InsertByTimestamp(sorted, x) ==
    IF sorted = <<>> THEN <<x>>
    ELSE IF sorted[Len(sorted)].timestamp <= x.timestamp THEN Append(sorted, x)
    ELSE Append(InsertByTimestamp(SubSeq(sorted, 1, Len(sorted) - 1), x),
                sorted[Len(sorted)])

\* The items in the order the remote source sent them.
ArrivalOrder(s) == s

RECURSIVE SortByTimestamp(_)
SortByTimestamp(s) ==
    IF s = <<>> THEN <<>>
    ELSE InsertByTimestamp(SortByTimestamp(SubSeq(s, 1, Len(s) - 1)), s[Len(s)])

\* An entry of the entries endpoint is [date, sgv, type]; sgv = 0 stands for
\* a missing or zero value, which entry.get('sgv') treats alike.
KeepEntry(e) == e.type = "sgv" /\ e.sgv # 0

ToReading(e) == [timestamp |-> e.date, sgv |-> e.sgv]

ReadingsOf(raw) == [i \in 1..Len(raw) |-> ToReading(raw[i])]

GetEntries(raw) == SortByTimestamp(ReadingsOf(SelectSeq(raw, KeepEntry)))

\* A treatment of the endpoint is [created_at, eventType, insulin, carbs,
\* isValid]; insulin = 0 and carbs = 0 stand for an absent or zero amount.
KeepTreatment(t) == t.isValid

ToTreatment(t) ==
    [timestamp |-> t.created_at, event_type |-> t.eventType,
     insulin |-> t.insulin, carbs |-> t.carbs]

TreatmentsOf(raw) == [i \in 1..Len(raw) |-> ToTreatment(raw[i])]

GetTreatments(raw) == SortByTimestamp(TreatmentsOf(SelectSeq(raw, KeepTreatment)))

(***************************************************************************)
(* The profile the engine reads: keys is the set of keys the document      *)
(* holds; sens and carbratio list the values of the schedule entries and   *)
(* basal lists [time, value] entries.                                      *)
(***************************************************************************)
ProfileSens(p) == IF "sens" \in p.keys THEN p.sens ELSE <<DefaultSens>>

ProfileCarbRatio(p) ==
    IF "carbratio" \in p.keys THEN p.carbratio ELSE <<DefaultCarbRatio>>

ProfileBasal(p) == IF "basal" \in p.keys THEN p.basal ELSE <<>>

(***************************************************************************)
(* AutotuneDataProcessor.                                                  *)
(***************************************************************************)
\* A window that leaves out its two boundaries.
InWindowOpen(t, prev_bg, bg) ==
    prev_bg.timestamp < t.timestamp /\ t.timestamp < bg.timestamp

\* The treatments of the window of a pair: prev.timestamp <= t <= bg.timestamp.
InWindow(t, prev_bg, bg) ==
    prev_bg.timestamp <= t.timestamp /\ t.timestamp <= bg.timestamp

RelevantTreatments(trts, prev_bg, bg) ==
    SelectSeq(trts, LAMBDA t : InWindow(t, prev_bg, bg))

\* _calculate_expected_bg_change raises IndexError on an empty schedule list
\* and ZeroDivisionError on a carb ratio of 0, and only for a treatment that
\* makes it read the schedule.
ExpectedChangeRaises(p, trts) ==
    \/ \E i \in 1..Len(trts) : trts[i].insulin # 0 /\ ProfileSens(p) = <<>>
    \/ \E i \in 1..Len(trts) :
          /\ trts[i].carbs # 0
          /\ \/ ProfileCarbRatio(p) = <<>>
             \/ ProfileCarbRatio(p)[1] = 0

\* An effect computed from the last entries of the schedules.
TreatmentEffectLastEntry(p, t) ==
    (IF t.carbs # 0
     THEN (t.carbs * CarbFactor) \div ProfileCarbRatio(p)[Len(ProfileCarbRatio(p))] ELSE 0)
    - (IF t.insulin # 0 THEN t.insulin * ProfileSens(p)[Len(ProfileSens(p))] ELSE 0)

\* The carbs of the model are multiples of the carb ratio, so the float
\* quotient carbs / carb_ratio * 50 is the integer computed here.
TreatmentEffect(p, t) ==
    (IF t.carbs # 0 THEN (t.carbs * CarbFactor) \div ProfileCarbRatio(p)[1] ELSE 0)
    - (IF t.insulin # 0 THEN t.insulin * ProfileSens(p)[1] ELSE 0)

CalculateExpectedBgChange(p, trts) ==
    SeqSum([i \in 1..Len(trts) |-> TreatmentEffect(p, trts[i])])

TimeDiff(readings, i) == readings[i].timestamp - readings[i - 1].timestamp

\* A pair test that forgets the upper limit of the gap.
ValidPairNoLimit(readings, i) == TimeDiff(readings, i) > 0

ValidPair(readings, i) ==
    TimeDiff(readings, i) > 0 /\ TimeDiff(readings, i) <= MaxGapMinutes

DeviationRow(readings, trts, p, i) ==
    LET bg == readings[i]
        prev_bg == readings[i - 1]
        relevant == RelevantTreatments(trts, prev_bg, bg)
    IN  [timestamp |-> bg.timestamp,
         bg |-> bg.sgv,
         deviation |-> (bg.sgv - prev_bg.sgv) - CalculateExpectedBgChange(p, relevant),
         treatments |-> Len(relevant),
         basal_only |-> Len(relevant) = 0,
         time_diff_min |-> TimeDiff(readings, i)]

\* The indices 2..Len of the later reading of each pair, in order.
PairIndices(readings) == [k \in 1..(Len(readings) - 1) |-> k + 1]

ValidIndices(readings) ==
    SelectSeq(PairIndices(readings), LAMBDA i : ValidPair(readings, i))

CalculateDeviationsRaises(readings, trts, p) ==
    \E k \in 1..Len(ValidIndices(readings)) :
        LET i == ValidIndices(readings)[k]
        IN  ExpectedChangeRaises(p, RelevantTreatments(trts, readings[i - 1], readings[i]))

CalculateDeviations(readings, trts, p) ==
    LET idx == ValidIndices(readings)
    IN  [k \in 1..Len(idx) |-> DeviationRow(readings, trts, p, idx[k])]

(***************************************************************************)
(* AutotuneEngine: the recommendation rules.                               *)
(***************************************************************************)
\* hour = int(time_str.split(':')[0]), and 0 on a ValueError.
BasalHour(time_str) ==
    LET parsed == ParseInt(SplitHead(time_str))
    IN  IF parsed.ok THEN parsed.v ELSE 0

\* The rows the hour filter keeps: hour <= row hour < (hour + 1) % 24, basal only.
InBasalPeriod(row, hour) ==
    /\ HourOf(row.timestamp) >= hour
    /\ HourOf(row.timestamp) < (hour + 1) % 24
    /\ row.basal_only

RelevantDeviations(devs, hour) == SelectSeq(devs, LAMBDA row : InBasalPeriod(row, hour))

\* Thresholds that ignore the mode.
MinDataPointsAnyMode(aggressive) == MinPointsAggressive

DeviationThresholdAnyMode(aggressive) == IsfThreshold

MinDataPoints(aggressive) ==
    IF aggressive THEN MinPointsAggressive ELSE MinPointsStandard

DeviationThreshold(aggressive) ==
    IF aggressive THEN ThresholdAggressive ELSE ThresholdStandard

DeviationSum(rows) == SeqSum([i \in 1..Len(rows) |-> rows[i].deviation])

\* A factor that always raises the rate.
AdjustmentFactorAlwaysUp(rows, threshold) == 11

\* A factor that a completed computation switches off.
AdjustmentFactorAfterRun(rows, threshold) ==
    IF pc = "called" THEN 10
    ELSE IF DeviationSum(rows) > threshold * Len(rows) THEN 11
    ELSE IF DeviationSum(rows) < (0 - threshold) * Len(rows) THEN 9
    ELSE 10

\* The adjustment factor in tenths.  The deviations are whole numbers, so
\* mean > threshold is sum > threshold * count.
AdjustmentFactor(rows, threshold) ==
    IF DeviationSum(rows) > threshold * Len(rows) THEN 11
    ELSE IF DeviationSum(rows) < (0 - threshold) * Len(rows) THEN 9
    ELSE 10

\* max(0.1, min(5.0, rate)) for a rate in ten-thousandths.
SafetyBounds(v) == Max(MinRate * 10, Min(MaxRate * 10, v))

\* round(max(0.1, min(5.0, current_rate * factor)), 2), in thousandths.
AdjustedRate(current_rate, factor) ==
    RoundHundredths(SafetyBounds(current_rate * factor)) * 10

CalculateBasalRecommendation(devs, time_str, current_rate, aggressive) ==
    IF devs = <<>> THEN current_rate
    ELSE LET relevant == RelevantDeviations(devs, BasalHour(time_str))
         IN  IF Len(relevant) < MinDataPoints(aggressive) THEN current_rate
             ELSE AdjustedRate(current_rate,
                               AdjustmentFactor(relevant, DeviationThreshold(aggressive)))

\* A basal entry is [time, value, keys]; keys is the set of keys it holds.
EntryTime(e) == IF "time" \in e.keys THEN e.time ELSE T0000

EntryValue(e) == IF "value" \in e.keys THEN e.value ELSE DefaultRate

\* An ISF factor from the basal-only rows alone.
IsfFactorBasalOnly(devs) ==
    LET rows == SelectSeq(devs, LAMBDA row : row.basal_only)
    IN  IF DeviationSum(rows) > IsfThreshold * Len(rows) THEN 9
        ELSE IF DeviationSum(rows) < (0 - IsfThreshold) * Len(rows) THEN 11
        ELSE 10

\* The ISF factor in tenths, from the mean over all rows.
IsfFactor(devs) ==
    IF DeviationSum(devs) > IsfThreshold * Len(devs) THEN 9
    ELSE IF DeviationSum(devs) < (0 - IsfThreshold) * Len(devs) THEN 11
    ELSE 10

\* The ISF values of a profile are whole mg/dL/U, so current_isf * factor has
\* one decimal and round(., 1) changes nothing.  Pump and Autotune in tenths.
IsfRecord(devs, p) ==
    [Parameter |-> IsfName,
     Pump |-> ProfileSens(p)[1] * 10,
     Autotune |-> ProfileSens(p)[1] * IsfFactor(devs),
     DaysMissing |-> 0]

\* A record that reads the last entry of the carb-ratio schedule.
CarbRatioRecordLast(p) ==
    [Parameter |-> CarbRatioName,
     Pump |-> ProfileCarbRatio(p)[Len(ProfileCarbRatio(p))],
     Autotune |-> ProfileCarbRatio(p)[Len(ProfileCarbRatio(p))],
     DaysMissing |-> 0]

CarbRatioRecord(p) ==
    [Parameter |-> CarbRatioName,
     Pump |-> ProfileCarbRatio(p)[1],
     Autotune |-> ProfileCarbRatio(p)[1],
     DaysMissing |-> 0]

BasalRecord(devs, e, aggressive) ==
    [Parameter |-> EntryTime(e),
     Pump |-> EntryValue(e),
     Autotune |-> CalculateBasalRecommendation(devs, EntryTime(e), EntryValue(e), aggressive),
     DaysMissing |-> 0]

BasalRecords(devs, p, aggressive) ==
    [i \in 1..Len(ProfileBasal(p)) |-> BasalRecord(devs, ProfileBasal(p)[i], aggressive)]

\* [0]['value'] of an empty schedule list is an IndexError.
CalculateRecommendationsRaises(devs, p) ==
    \/ devs # <<>> /\ ProfileSens(p) = <<>>
    \/ ProfileCarbRatio(p) = <<>>

\* A result that lists the schedule records before the scalar records.
CalculateRecommendationsBasalFirst(devs, p, aggressive) ==
    BasalRecords(devs, p, aggressive)
    \o (IF devs # <<>> THEN <<IsfRecord(devs, p)>> ELSE <<>>)
    \o <<CarbRatioRecord(p)>>

CalculateRecommendations(devs, p, aggressive) ==
    (IF devs # <<>> THEN <<IsfRecord(devs, p)>> ELSE <<>>)
    \o <<CarbRatioRecord(p)>>
    \o BasalRecords(devs, p, aggressive)

(***************************************************************************)
(* The inputs the model draws.                                             *)
(***************************************************************************)
\* The sequences over S of length at most n.
SeqsUpTo(S, n) == UNION {[1..k -> S] : k \in 0..n}

\* Readings built from a first reading and the [gap, delta] steps after it.
RECURSIVE BuildReadings(_, _, _)
BuildReadings(t0, sgv0, steps) ==
    IF steps = <<>> THEN <<[timestamp |-> t0, sgv |-> sgv0]>>
    ELSE <<[timestamp |-> t0, sgv |-> sgv0]>>
         \o BuildReadings(t0 + Head(steps).gap, sgv0 + Head(steps).delta, Tail(steps))

ReadingLists(t0, steps, maxlen) ==
    {<<>>} \cup {BuildReadings(t0, 100, st) : st \in SeqsUpTo(steps, maxlen - 1)}

\* Gaps on both sides of the 0 and 15 minute limits.
PairSteps == [gap : {0, 5, 15, 16}, delta : {15}]

\* Five-minute readings whose changes lie on both sides of the thresholds.
TuneSteps == [gap : {5}, delta : {-25, 15, 25}]

\* Five-minute readings whose changes lie around the ISF thresholds of 5.
IsfSteps == [gap : {5}, delta : {-6, -5, 5, 8}]

TreatmentKinds ==
    {[event_type |-> "Correction Bolus", insulin |-> 1, carbs |-> 0],
     [event_type |-> "Carb Correction", insulin |-> 0, carbs |-> 10],
     [event_type |-> "Meal Bolus", insulin |-> 2, carbs |-> 20],
     [event_type |-> "Temp Basal", insulin |-> 0, carbs |-> 0]}

TreatmentAt(ts, kind) ==
    [timestamp |-> ts, event_type |-> kind.event_type,
     insulin |-> kind.insulin, carbs |-> kind.carbs]

\* Treatment lists as the client returns them: ascending by timestamp.
TreatmentLists(times, maxlen) ==
    {s \in SeqsUpTo({TreatmentAt(ts, k) : ts \in times, k \in TreatmentKinds}, maxlen) :
        \A i \in 1..(Len(s) - 1) : s[i].timestamp <= s[i + 1].timestamp}

\* Rates below, inside and above the safety bounds, one with three decimals.
RateSet == {50, 123, 800, 4800, 6000}

TimeLabels == {T0000, T1000, T2300, TBad}

BasalEntry(label, rate) == [time |-> label, value |-> rate, keys |-> {"time", "value"}]

\* Schedules of one entry of any rate, and longer ones of distinct labels.
Schedules ==
    {<<>>}
    \cup {<<BasalEntry(l, r)>> : l \in TimeLabels, r \in RateSet}
    \cup {[i \in 1..Len(ls) |-> BasalEntry(ls[i], 800)] :
            ls \in {x \in SeqsUpTo(TimeLabels, MaxBasal) :
                      Len(x) >= 2 /\ \A i, j \in 1..Len(x) : i # j => x[i] # x[j]}}

ProfileOf(sens, carbratio, basal) ==
    [keys |-> {"sens", "carbratio", "basal"},
     sens |-> sens, carbratio |-> carbratio, basal |-> basal]

DefaultConfig == [start_date |-> "2025-11-04", end_date |-> "2025-11-05"]

NoRemote == [entries |-> <<>>, treatments |-> <<>>, profile |-> <<>>, failing |-> {}]

NoFetches == [entries |-> 0, treatments |-> 0, profile |-> 0]

NoResult == [status |-> "none"]

(***************************************************************************)
(* The processor and the recommendation function called on their own, as   *)
(* the unit tests call them.                                               *)
(***************************************************************************)
CallCalculateDeviations ==
    /\ pc = "call_deviations"
    /\ UNCHANGED <<applierVars, modernVars, second_recommendations>>
    /\ IF CalculateDeviationsRaises(bg_readings, treatments, profile)
       THEN /\ pc' = "raised"
            /\ UNCHANGED deviations_df
       ELSE /\ pc' = "call_recommendations"
            /\ deviations_df' = CalculateDeviations(bg_readings, treatments, profile)
    /\ UNCHANGED <<remote, config, aggressive_mode, bg_readings, treatments,
                   profile, recommendations, fetches, result>>

CallCalculateRecommendations ==
    /\ pc = "call_recommendations"
    /\ UNCHANGED <<applierVars, modernVars, second_recommendations>>
    /\ IF CalculateRecommendationsRaises(deviations_df, profile)
       THEN /\ pc' = "raised"
            /\ UNCHANGED recommendations
       ELSE /\ pc' = "called"
            /\ recommendations' =
                 CalculateRecommendations(deviations_df, profile, aggressive_mode)
    /\ UNCHANGED <<remote, config, aggressive_mode, bg_readings, treatments,
                   profile, deviations_df, fetches, result>>

\* Readings with gaps around the limits, treatments around the readings.
InitPairing ==
    /\ bg_readings \in ReadingLists(600, PairSteps, MaxReadings)
    /\ treatments \in TreatmentLists({595, 600, 602, 605}, MaxTreatments)
    /\ profile \in {ProfileOf(<<50>>, <<10>>, <<BasalEntry(T1000, 800)>>),
                     ProfileOf(<<40, 60>>, <<5, 20>>, <<BasalEntry(T1000, 800)>>)}
    /\ aggressive_mode = FALSE

\* Five-minute readings in hour 0, 10 or 23, any schedule, both modes.
InitTuning ==
    /\ \E t0 \in {0, 600, 1380} :
         /\ bg_readings \in ReadingLists(t0, TuneSteps, MaxTune)
         /\ treatments \in {<<>>, <<TreatmentAt(t0 + 5, [event_type |-> "Correction Bolus",
                                                         insulin |-> 1, carbs |-> 0])>>}
    /\ profile \in {ProfileOf(<<50>>, <<10>>, b) : b \in Schedules}
    /\ aggressive_mode \in BOOLEAN

\* Changes around the ISF thresholds, with and without a bolus, two ISF values.
InitIsf ==
    /\ bg_readings \in ReadingLists(600, IsfSteps, MaxTune)
    /\ treatments \in {<<>>, <<TreatmentAt(605, [event_type |-> "Correction Bolus",
                                                 insulin |-> 1, carbs |-> 0])>>}
    /\ profile \in {ProfileOf(<<sens>>, cr, <<BasalEntry(T1000, 800)>>) :
                       sens \in {45, 50}, cr \in {<<10>>, <<12, 15>>}}
    /\ aggressive_mode = FALSE

InitCalc ==
    /\ (InitPairing \/ InitTuning \/ InitIsf)
    /\ remote = NoRemote
    /\ config = DefaultConfig
    /\ deviations_df = <<>>
    /\ recommendations = <<>>
    /\ second_recommendations = <<>>
    /\ fetches = NoFetches
    /\ result = NoResult
    /\ pc = "call_deviations"
    /\ ApplierIdle
    /\ ModernIdle

\* _calculate_recommendations called once more on the same deviation set,
\* profile and mode.
CallCalculateRecommendationsAgain ==
    /\ pc = "called"
    /\ second_recommendations' =
         CalculateRecommendations(deviations_df, profile, aggressive_mode)
    /\ pc' = "called_twice"
    /\ UNCHANGED <<remote, config, aggressive_mode, bg_readings, treatments,
                   profile, deviations_df, recommendations, fetches, result>>
    /\ UNCHANGED <<applierVars, modernVars>>

NextCalc ==
    \/ CallCalculateDeviations
    \/ CallCalculateRecommendations
    \/ CallCalculateRecommendationsAgain

vars == <<engineVars, applierVars, modernVars>>

SpecCalc == InitCalc /\ [][NextCalc]_vars

(***************************************************************************)
(* Properties of the deviation rows and of the basal recommendations.      *)
(***************************************************************************)
\* The records of the basal schedule entries (every record but the scalars).
HourRecords ==
    {i \in 1..Len(recommendations) :
        recommendations[i].Parameter \notin {IsfName, CarbRatioName}}

\* The hour of day a well-formed label names, and -1 for any other text.
ClockHour(label) ==
    CASE label = T0000 -> 0
      [] label = T1000 -> 10
      [] label = T2300 -> 23
      [] OTHER -> -1

\* The basal-only rows whose timestamp lies in hour h of the day.
BasalOnlyInHour(h) ==
    {k \in 1..Len(deviations_df) :
        deviations_df[k].basal_only /\ HourOf(deviations_df[k].timestamp) = h}

HourSum(h) == SeqSum([k \in 1..Len(deviations_df) |->
                        IF k \in BasalOnlyInHour(h) THEN deviations_df[k].deviation ELSE 0])

\* The adjacent pairs of readings whose gap is above 0 and at most 15 minutes.
RetainedPairs ==
    {i \in 2..Len(bg_readings) :
        /\ bg_readings[i].timestamp - bg_readings[i - 1].timestamp > 0
        /\ bg_readings[i].timestamp - bg_readings[i - 1].timestamp <= 15}

DeviationsDone == pc \in {"call_recommendations", "called"}

\* C1: every basal recommendation (the Autotune value of every hour-label
\* record) lies in [0.1, 5.0] units/hour, for every current rate, every
\* deviation set and both modes.
C1_BasalWithinSafetyBounds ==
    pc = "called" =>
        \A i \in HourRecords :
            /\ recommendations[i].Autotune >= 100
            /\ recommendations[i].Autotune <= 5000

\* C6: an hour with fewer basal-only rows than the mode's minimum (3 in
\* standard mode, 2 in aggressive mode) keeps its current rate exactly.
C6_InsufficientDataKeepsRate ==
    pc = "called" =>
        \A i \in HourRecords :
            LET h == ClockHour(recommendations[i].Parameter)
            IN  (/\ h \in 0..23
                 /\ Cardinality(BasalOnlyInHour(h)) < (IF aggressive_mode THEN 2 ELSE 3))
                => recommendations[i].Autotune = recommendations[i].Pump

\* Standard mode, rate 0.8, two basal-only rows of +25 in the hour: kept at 0.8.
C6_Witness ==
    /\ pc = "called"
    /\ ~aggressive_mode
    /\ Cardinality(BasalOnlyInHour(10)) = 2
    /\ HourSum(10) = 50
    /\ \E i \in HourRecords :
         /\ recommendations[i].Parameter = T1000
         /\ recommendations[i].Pump = 800
         /\ recommendations[i].Autotune = 800

\* C7: the deviation rows are exactly the adjacent pairs of readings whose gap
\* is above 0 and at most 15 minutes; a wider pair and a zero-minute pair
\* produce no row.
C7_RowsFromValidPairsOnly ==
    DeviationsDone =>
        /\ Len(deviations_df) = Cardinality(RetainedPairs)
        /\ \A k \in 1..Len(deviations_df) :
             /\ deviations_df[k].time_diff_min > 0
             /\ deviations_df[k].time_diff_min <= 15
             /\ \E i \in RetainedPairs :
                  /\ bg_readings[i].timestamp = deviations_df[k].timestamp
                  /\ bg_readings[i].timestamp - bg_readings[i - 1].timestamp
                       = deviations_df[k].time_diff_min

\* Four readings with gaps of 0, 16 and 15 minutes: one row, of the last pair.
C7_Witness ==
    /\ DeviationsDone
    /\ Len(bg_readings) = 4
    /\ bg_readings[2].timestamp = bg_readings[1].timestamp
    /\ bg_readings[3].timestamp - bg_readings[2].timestamp = 16
    /\ bg_readings[4].timestamp - bg_readings[3].timestamp = 15
    /\ Len(deviations_df) = 1
    /\ deviations_df[1].timestamp = bg_readings[4].timestamp

\* C8: a row is basal-only iff no treatment, of whatever kind, has a
\* timestamp in the closed interval between the two readings of its pair.
C8_BasalOnlyIffNoTreatment ==
    DeviationsDone =>
        \A k \in 1..Len(deviations_df) :
            deviations_df[k].basal_only <=>
                ~\E j \in 1..Len(treatments) :
                    /\ treatments[j].timestamp
                         >= deviations_df[k].timestamp - deviations_df[k].time_diff_min
                    /\ treatments[j].timestamp <= deviations_df[k].timestamp

\* A temp basal on the later boundary of a pair: the row is not basal-only.
C8_Witness ==
    /\ DeviationsDone
    /\ \E k \in 1..Len(deviations_df), j \in 1..Len(treatments) :
         /\ treatments[j].event_type = "Temp Basal"
         /\ treatments[j].timestamp = deviations_df[k].timestamp
         /\ ~deviations_df[k].basal_only

\* C9: an hour with at least 3 basal-only rows whose mean is exactly +15 keeps
\* its rate in standard mode and gets its rate times 1.10 in aggressive mode.
\* Stated for the rates that the safety bounds and the rounding leave alone.
C9_ModeSensitivity ==
    pc = "called" =>
        \A i \in HourRecords :
            LET h == ClockHour(recommendations[i].Parameter)
                pump == recommendations[i].Pump
            IN  (/\ h \in 0..23
                 /\ Cardinality(BasalOnlyInHour(h)) >= 3
                 /\ HourSum(h) = 15 * Cardinality(BasalOnlyInHour(h))
                 /\ pump % 100 = 0 /\ pump >= 100 /\ pump * 11 <= 50000)
                => recommendations[i].Autotune = (IF aggressive_mode THEN (pump * 11) \div 10
                                                  ELSE pump)

\* The sum of the deviations of all rows, treatment-affected ones included.
TotalDeviation == SeqSum([k \in 1..Len(deviations_df) |-> deviations_df[k].deviation])

IsfRecords == {i \in 1..Len(recommendations) : recommendations[i].Parameter = IsfName}

\* C11: with a non-empty deviation set there is one ISF record, computed from
\* the mean deviation over all rows: above +5 it recommends the current ISF
\* times 0.9, below -5 the current ISF times 1.1, and otherwise the current
\* ISF (values to one decimal).
C11_IsfRule ==
    (pc = "called" /\ deviations_df # <<>>) =>
        /\ Cardinality(IsfRecords) = 1
        /\ \A i \in IsfRecords :
             LET isf == profile.sens[1]
                 n == Len(deviations_df)
             IN  /\ recommendations[i].Pump = isf * 10
                 /\ TotalDeviation > 5 * n => recommendations[i].Autotune = isf * 9
                 /\ TotalDeviation < (0 - 5) * n => recommendations[i].Autotune = isf * 11
                 /\ (TotalDeviation <= 5 * n /\ TotalDeviation >= (0 - 5) * n)
                      => recommendations[i].Autotune = isf * 10

\* Mean +8 over all rows with ISF 50: 45.0 is recommended.
C11_Witness ==
    /\ pc = "called"
    /\ deviations_df # <<>>
    /\ TotalDeviation = 8 * Len(deviations_df)
    /\ profile.sens = <<50>>
    /\ \E i \in IsfRecords : recommendations[i].Autotune = 450

C14_MalformedLabelKeepsRate ==
    pc = "called" =>
        /\ Cardinality(HourRecords) = Len(profile.basal)
        /\ \A i \in HourRecords :
             recommendations[i].Parameter = TBad
                => recommendations[i].Autotune = recommendations[i].Pump

CarbRatioRecords ==
    {i \in 1..Len(recommendations) : recommendations[i].Parameter = CarbRatioName}

\* C16: every recommendation set holds exactly one CarbRatio(g/U) record,
\* whose Autotune value equals its Pump value, the first entry of the
\* carb-ratio schedule, for every deviation set including the empty one.
C16_OneCarbRatioRecord ==
    pc = "called" =>
        /\ Cardinality(CarbRatioRecords) = 1
        /\ \A i \in CarbRatioRecords :
             /\ recommendations[i].Pump = profile.carbratio[1]
             /\ recommendations[i].Autotune = recommendations[i].Pump

\* An empty deviation set and a schedule of two carb ratios: the record
\* carries the first one.
C16_Witness ==
    /\ pc = "called"
    /\ deviations_df = <<>>
    /\ profile.carbratio = <<12, 15>>
    /\ \E i \in CarbRatioRecords : recommendations[i].Autotune = 12

\* C18: the record of an entry whose label names hour h of 0..23 is computed
\* from exactly the basal-only rows whose hour of day is h, hour 23
\* included.  Stated for the rate 0.8, which the safety bounds leave alone.
C18_PerHourAggregation ==
    pc = "called" =>
        \A i \in HourRecords :
            LET h == ClockHour(recommendations[i].Parameter)
                n == Cardinality(BasalOnlyInHour(h))
                threshold == IF aggressive_mode THEN 10 ELSE 20
            IN  (h \in 0..23 /\ recommendations[i].Pump = 800)
                => recommendations[i].Autotune =
                     (IF n < (IF aggressive_mode THEN 2 ELSE 3) THEN 800
                      ELSE IF HourSum(h) > threshold * n THEN 880
                      ELSE IF HourSum(h) < (0 - threshold) * n THEN 720
                      ELSE 800)

\* The retained pair a row was computed from: the one whose later reading
\* has the timestamp of the row.
PairOfRow(k) ==
    CHOOSE i \in RetainedPairs : bg_readings[i].timestamp = deviations_df[k].timestamp

\* Carb ratio times the expected change of the pair ending at reading i, from
\* the first entries of the schedules: the sum over the treatments in the
\* closed interval of carbs * 50 - insulin * ISF * carb ratio.
ScaledExpectedChange(i) ==
    SeqSum([j \in 1..Len(treatments) |->
              IF /\ bg_readings[i - 1].timestamp <= treatments[j].timestamp
                 /\ treatments[j].timestamp <= bg_readings[i].timestamp
              THEN treatments[j].carbs * 50
                   - treatments[j].insulin * profile.sens[1] * profile.carbratio[1]
              ELSE 0])

C25_TreatmentCountedOnce ==
    DeviationsDone =>
        SeqSum([k \in 1..Len(deviations_df) |-> deviations_df[k].treatments])
          <= Len(treatments)

\* The hour of record i holds at least the mode's minimum of basal-only rows
\* and the magnitude of their mean deviation exceeds the mode's threshold.
BeyondThreshold(i) ==
    LET h == ClockHour(recommendations[i].Parameter)
        n == Cardinality(BasalOnlyInHour(h))
        threshold == IF aggressive_mode THEN 10 ELSE 20
    IN  /\ n >= (IF aggressive_mode THEN 2 ELSE 3)
        /\ \/ HourSum(h) > threshold * n
           \/ HourSum(h) < (0 - threshold) * n

ScalarCount == IF deviations_df # <<>> THEN 2 ELSE 1

\* C30: the scalar records (ISF when present, then CarbRatio) come first and
\* the hour-label records follow in the order of the basal schedule, one per
\* schedule entry with the entry's label and rate as Parameter and Pump; with
\* a non-empty deviation set the first two records are ISF and CarbRatio.
C30_RecordOrder ==
    pc = "called" =>
        /\ Len(recommendations) = ScalarCount + Len(profile.basal)
        /\ recommendations[ScalarCount].Parameter = CarbRatioName
        /\ deviations_df # <<>> => recommendations[1].Parameter = IsfName
        /\ \A i \in 1..Len(profile.basal) :
             /\ recommendations[ScalarCount + i].Parameter = profile.basal[i].time
             /\ recommendations[ScalarCount + i].Pump = profile.basal[i].value

\* A schedule of two entries, 23:00 before 00:00, and a non-empty deviation
\* set: ISF, CarbRatio, 23:00, 00:00.
C30_Witness ==
    /\ pc = "called"
    /\ deviations_df # <<>>
    /\ Len(profile.basal) = 2
    /\ profile.basal[1].time = T2300
    /\ profile.basal[2].time = T0000
    /\ Len(recommendations) = 4
    /\ recommendations[3].Parameter = T2300
    /\ recommendations[4].Parameter = T0000

(***************************************************************************)
(* AutotuneEngine.run_autotune, one step per fetch and per stage.          *)
(***************************************************************************)
Endpoints == {"entries", "treatments", "profile"}

\* datetime.strptime(text, "%Y-%m-%d") succeeds on these texts only.
ValidDates == {"2025-11-04", "2025-11-05"}

DatesParse(cfg) == cfg.start_date \in ValidDates /\ cfg.end_date \in ValidDates

\* "except RequestException" only: what a narrower handler would catch.
CatchesRequestOnly(kind) == kind = "RequestException"

\* "except Exception" of run_autotune: every exception kind of the run.
Catches(kind) == kind \in {"RequestException", "ValueError", "KeyError",
                            "IndexError", "ZeroDivisionError"}

ErrorResultFor(cfg, msg) == [status |-> "error", error |-> msg, config |-> cfg]

ErrorResult(msg) == ErrorResultFor(config, msg)

\* An exception of the given kind inside the try block.
Raise(kind, msg) ==
    IF Catches(kind)
    THEN /\ result' = ErrorResult(msg)
         /\ pc' = "returned"
    ELSE /\ result' = result
         /\ pc' = "raised"

Issue(endpoint) == fetches' = [fetches EXCEPT ![endpoint] = @ + 1]

\* A fetch of the entries that is issued once more after its first failure.
FetchEntriesRetrying ==
    /\ pc = "entries"
    /\ UNCHANGED <<applierVars, modernVars, second_recommendations>>
    /\ IF ~DatesParse(config)
       THEN /\ Raise("ValueError", "time data does not match format")
            /\ UNCHANGED <<fetches, bg_readings>>
       ELSE /\ Issue("entries")
            /\ IF "entries" \in remote.failing
               THEN IF fetches.entries = 0
                    THEN UNCHANGED <<pc, result, bg_readings>>
                    ELSE /\ Raise("RequestException", "request failed")
                         /\ UNCHANGED bg_readings
               ELSE /\ bg_readings' = GetEntries(remote.entries)
                    /\ pc' = "treatments"
                    /\ UNCHANGED result
    /\ UNCHANGED <<remote, config, aggressive_mode, treatments, profile,
                   deviations_df, recommendations>>

FetchEntries ==
    /\ pc = "entries"
    /\ UNCHANGED <<applierVars, modernVars, second_recommendations>>
    /\ IF ~DatesParse(config)
       THEN /\ Raise("ValueError", "time data does not match format")
            /\ UNCHANGED <<fetches, bg_readings>>
       ELSE /\ Issue("entries")
            /\ IF "entries" \in remote.failing
               THEN /\ Raise("RequestException", "request failed")
                    /\ UNCHANGED bg_readings
               ELSE /\ bg_readings' = GetEntries(remote.entries)
                    /\ pc' = "treatments"
                    /\ UNCHANGED result
    /\ UNCHANGED <<remote, config, aggressive_mode, treatments, profile,
                   deviations_df, recommendations>>

FetchTreatments ==
    /\ pc = "treatments"
    /\ UNCHANGED <<applierVars, modernVars, second_recommendations>>
    /\ Issue("treatments")
    /\ IF "treatments" \in remote.failing
       THEN /\ Raise("RequestException", "request failed")
            /\ UNCHANGED treatments
       ELSE /\ treatments' = GetTreatments(remote.treatments)
            /\ pc' = "profile"
            /\ UNCHANGED result
    /\ UNCHANGED <<remote, config, aggressive_mode, bg_readings, profile,
                   deviations_df, recommendations>>

\* get_profile: the store entry named by defaultProfile of the first document.
FetchProfile ==
    /\ pc = "profile"
    /\ UNCHANGED <<applierVars, modernVars, second_recommendations>>
    /\ Issue("profile")
    /\ IF "profile" \in remote.failing
       THEN /\ Raise("RequestException", "request failed")
            /\ UNCHANGED profile
       ELSE IF remote.profile = <<>>
       THEN /\ Raise("ValueError", "No profile data found in Nightscout")
            /\ UNCHANGED profile
       ELSE IF remote.profile[1].defaultProfile \notin DOMAIN remote.profile[1].store
       THEN /\ Raise("KeyError", remote.profile[1].defaultProfile)
            /\ UNCHANGED profile
       ELSE /\ profile' = remote.profile[1].store[remote.profile[1].defaultProfile]
            /\ pc' = "validate"
            /\ UNCHANGED result
    /\ UNCHANGED <<remote, config, aggressive_mode, bg_readings, treatments,
                   deviations_df, recommendations>>

\* A floor that rejects an empty list only.
InsufficientDataEmptyOnly(readings) == Len(readings) = 0

\* if len(bg_readings) < 10: raise ValueError
InsufficientData(readings) == Len(readings) < MinReadings

ValidateData ==
    /\ pc = "validate"
    /\ UNCHANGED <<applierVars, modernVars, second_recommendations>>
    /\ IF InsufficientData(bg_readings)
       THEN Raise("ValueError", "Insufficient BG readings for autotune analysis")
       ELSE /\ pc' = "process"
            /\ UNCHANGED result
    /\ UNCHANGED <<remote, config, aggressive_mode, bg_readings, treatments,
                   profile, deviations_df, recommendations, fetches>>

ProcessData ==
    /\ pc = "process"
    /\ UNCHANGED <<applierVars, modernVars, second_recommendations>>
    /\ IF CalculateDeviationsRaises(bg_readings, treatments, profile)
       THEN /\ Raise("IndexError", "list index out of range")
            /\ UNCHANGED deviations_df
       ELSE /\ deviations_df' = CalculateDeviations(bg_readings, treatments, profile)
            /\ pc' = "recommend"
            /\ UNCHANGED result
    /\ UNCHANGED <<remote, config, aggressive_mode, bg_readings, treatments,
                   profile, recommendations, fetches>>

Recommend ==
    /\ pc = "recommend"
    /\ UNCHANGED <<applierVars, modernVars, second_recommendations>>
    /\ IF CalculateRecommendationsRaises(deviations_df, profile)
       THEN /\ Raise("IndexError", "list index out of range")
            /\ UNCHANGED recommendations
       ELSE /\ recommendations' =
                 CalculateRecommendations(deviations_df, profile, aggressive_mode)
            /\ pc' = "format"
            /\ UNCHANGED result
    /\ UNCHANGED <<remote, config, aggressive_mode, bg_readings, treatments,
                   profile, deviations_df, fetches>>

FormatResult ==
    /\ pc = "format"
    /\ UNCHANGED <<applierVars, modernVars, second_recommendations>>
    /\ result' = [status |-> "success",
                  config |-> config,
                  data_summary |-> [bg_readings |-> Len(bg_readings),
                                    treatments |-> Len(treatments),
                                    deviations |-> Len(deviations_df)],
                  recommendations |-> recommendations,
                  profile |-> profile]
    /\ pc' = "returned"
    /\ UNCHANGED <<remote, config, aggressive_mode, bg_readings, treatments,
                   profile, deviations_df, recommendations, fetches>>

\* n entries of the canonical type, five minutes apart, each delta higher.
UniformEntries(t0, delta, n) ==
    [i \in 1..n |-> [date |-> t0 + 5 * (i - 1), sgv |-> 100 + delta * (i - 1), type |-> "sgv"]]

\* The same entries with the first one a calibration record, which
\* get_entries drops.
WithCalibration(entries) ==
    [i \in 1..Len(entries) |-> IF i = 1 THEN [entries[i] EXCEPT !.type = "cal"] ELSE entries[i]]

RemoteTreatment(ts, kind, valid) ==
    [created_at |-> ts, eventType |-> kind.event_type, insulin |-> kind.insulin,
     carbs |-> kind.carbs, isValid |-> valid]

Bolus == [event_type |-> "Correction Bolus", insulin |-> 1, carbs |-> 0]

ProfileDocument(name, p) == [defaultProfile |-> name, store |-> [Default |-> p]]

\* Profiles that tune, and profiles whose schedules make a stage fail.
RunProfiles ==
    {ProfileOf(<<50>>, <<10>>, <<BasalEntry(T1000, 800)>>),
     ProfileOf(<<50>>, <<10>>, <<BasalEntry(T1000, 4800), BasalEntry(T2300, 50)>>),
     ProfileOf(<<>>, <<10>>, <<BasalEntry(T1000, 800)>>),
     ProfileOf(<<50>>, <<>>, <<BasalEntry(T1000, 800)>>),
     [keys |-> {}, sens |-> <<>>, carbratio |-> <<>>, basal |-> <<>>]}

RemoteProfiles ==
    {<<>>}
    \cup {<<ProfileDocument("Default", p)>> : p \in RunProfiles}
    \cup {<<ProfileDocument("Missing", ProfileOf(<<50>>, <<10>>, <<>>))>>}

NoProfile == [keys |-> {}, sens |-> <<>>, carbratio |-> <<>>, basal |-> <<>>]

Init ==
    /\ remote \in [entries : {UniformEntries(600, d, n) : d \in {10, 25}, n \in 0..MaxFetched}
                             \cup {WithCalibration(UniformEntries(600, 10, n)) : n \in 1..MaxFetched},
                   treatments : {<<>>, <<RemoteTreatment(602, Bolus, TRUE)>>},
                   profile : RemoteProfiles,
                   failing : SUBSET Endpoints]
    /\ config \in {DefaultConfig, [start_date |-> "2025-11-04", end_date |-> "yesterday"]}
    /\ aggressive_mode \in BOOLEAN
    /\ bg_readings = <<>>
    /\ treatments = <<>>
    /\ profile = NoProfile
    /\ deviations_df = <<>>
    /\ recommendations = <<>>
    /\ second_recommendations = <<>>
    /\ fetches = NoFetches
    /\ result = NoResult
    /\ pc = "entries"
    /\ ApplierIdle
    /\ ModernIdle

Next ==
    \/ FetchEntries
    \/ FetchTreatments
    \/ FetchProfile
    \/ ValidateData
    \/ ProcessData
    \/ Recommend
    \/ FormatResult

Spec == Init /\ [][Next]_vars

(***************************************************************************)
(* Properties of run_autotune.                                             *)
(***************************************************************************)
SuccessKeys == {"status", "config", "data_summary", "recommendations", "profile"}

ErrorKeys == {"status", "error", "config"}

\* C4: run_autotune never raises; it returns either a success result with
\* the recommendation set, the data-volume summary and the source profile,
\* or an error result with a message and the echoed configuration and no
\* recommendations.
C4_RunReturnsSuccessOrError ==
    /\ pc \in {"entries", "treatments", "profile", "validate", "process",
               "recommend", "format", "returned"}
    /\ pc = "returned" =>
         \/ /\ result.status = "success"
            /\ DOMAIN result = SuccessKeys
            /\ result.recommendations = recommendations
            /\ Len(result.recommendations) >= 1
            /\ result.data_summary = [bg_readings |-> Len(bg_readings),
                                      treatments |-> Len(treatments),
                                      deviations |-> Len(deviations_df)]
            /\ result.profile = remote.profile[1].store[remote.profile[1].defaultProfile]
            /\ result.config = config
         \/ /\ result.status = "error"
            /\ DOMAIN result = ErrorKeys
            /\ result.error # ""
            /\ result.config = config

\* All three fetches succeeded, ten or more readings, and the recommendation
\* stage failed on an empty schedule list: an error result, nothing raised.
C4_Witness ==
    /\ pc = "returned"
    /\ fetches = [entries |-> 1, treatments |-> 1, profile |-> 1]
    /\ Len(bg_readings) >= 10
    /\ deviations_df # <<>>
    /\ result.status = "error"
    /\ result.error = "list index out of range"

\* Ten readings five minutes apart rising from 100 to 190, no treatments,
\* rate 0.8 for the hour, standard mode, every fetch succeeding.
RisingScenario ==
    /\ remote.entries = UniformEntries(600, 10, 10)
    /\ remote.treatments = <<>>
    /\ remote.profile =
         <<ProfileDocument("Default", ProfileOf(<<50>>, <<10>>, <<BasalEntry(T1000, 800)>>))>>
    /\ remote.failing = {}
    /\ config = DefaultConfig
    /\ ~aggressive_mode

\* C10 as stated: in the rising scenario the mean basal-only deviation of the
\* hour exceeds +20 and the recommended rate of the hour is 0.88.
C10_RisingScenarioRaisesRate ==
    (RisingScenario /\ pc = "returned") =>
        /\ result.status = "success"
        /\ HourSum(10) > 20 * Cardinality(BasalOnlyInHour(10))
        /\ \E i \in 1..Len(result.recommendations) :
             /\ result.recommendations[i].Parameter = T1000
             /\ result.recommendations[i].Autotune = 880

\* C10 amended: in the rising scenario the nine rows of the hour are
\* basal-only with a mean deviation of +10, which does not exceed +20, and
\* the recommended rate of the hour is the current 0.8.
C10_RisingScenarioKeepsRate ==
    (RisingScenario /\ pc = "returned") =>
        /\ result.status = "success"
        /\ Cardinality(BasalOnlyInHour(10)) = 9
        /\ HourSum(10) = 10 * 9
        /\ \A i \in 1..Len(result.recommendations) :
             result.recommendations[i].Parameter = T1000
                => /\ result.recommendations[i].Pump = 800
                   /\ result.recommendations[i].Autotune = 800
        /\ \E i \in 1..Len(result.recommendations) :
             result.recommendations[i].Parameter = T1000

C10_Witness ==
    /\ RisingScenario
    /\ pc = "returned"
    /\ result.status = "success"
    /\ Len(bg_readings) = 10
    /\ bg_readings[10].sgv = 190

\* Every request of the run was answered and get_profile found its profile.
AllFetchesSucceeded ==
    /\ fetches = [entries |-> 1, treatments |-> 1, profile |-> 1]
    /\ remote.failing = {}
    /\ remote.profile # <<>>
    /\ remote.profile[1].defaultProfile \in DOMAIN remote.profile[1].store

\* C13: when the glucose fetch returns fewer than 10 readings and all three
\* fetches succeed, run_autotune returns an error result and computes no
\* deviations and no recommendations.
C13_InsufficientDataFloor ==
    (pc = "returned" /\ AllFetchesSucceeded /\ Len(bg_readings) < 10) =>
        /\ result.status = "error"
        /\ deviations_df = <<>>
        /\ recommendations = <<>>

\* Ten entries of which one is a calibration record: nine readings, an error.
C13_Witness ==
    /\ pc = "returned"
    /\ AllFetchesSucceeded
    /\ Len(remote.entries) = 10
    /\ Len(bg_readings) = 9
    /\ result.status = "error"
    /\ result.error = "Insufficient BG readings for autotune analysis"

\* C15: the recommendation set of every successful run holds a record for
\* each hour of day 0..23 and both scalar records.
C15_CompleteOutputSet ==
    (pc = "returned" /\ result.status = "success") =>
        /\ \A h \in 0..23 :
             \E i \in 1..Len(result.recommendations) :
                 ClockHour(result.recommendations[i].Parameter) = h
        /\ \E i \in 1..Len(result.recommendations) :
             result.recommendations[i].Parameter = IsfName
        /\ \E i \in 1..Len(result.recommendations) :
             result.recommendations[i].Parameter = CarbRatioName

\* The position of an endpoint in the order of the fetches.
FetchOrder == [entries |-> 1, treatments |-> 2, profile |-> 3]

\* C17: each of the three fetches is issued at most once and in order; after
\* a failed fetch no later fetch is issued, no deviations and no
\* recommendations are computed, and the run has ended with an error result.
C17_NoRetryAfterTransportError ==
    /\ \A e \in Endpoints : fetches[e] <= 1
    /\ \A e, f \in Endpoints :
         (FetchOrder[e] < FetchOrder[f] /\ fetches[f] = 1)
            => (fetches[e] = 1 /\ e \notin remote.failing)
    /\ \A e \in Endpoints :
         (fetches[e] = 1 /\ e \in remote.failing)
            => /\ pc = "returned"
               /\ result.status = "error"
               /\ result.error = "request failed"
               /\ deviations_df = <<>>
               /\ recommendations = <<>>

\* The treatments fetch failed after the entries fetch had succeeded: the
\* profile was never requested and the run returned an error.
C17_Witness ==
    /\ pc = "returned"
    /\ "treatments" \in remote.failing
    /\ fetches = [entries |-> 1, treatments |-> 1, profile |-> 0]
    /\ result.status = "error"

(***************************************************************************)
(* Autotune.create_adjusted_profile.                                       *)
(*                                                                         *)
(* A row is [Parameter, Autotune].  Parameter is [kind, chars]: a text, or *)
(* a number whose str() is chars.  Autotune is a cell [kind, value]: a     *)
(* number, a text float() rejects, or None.  The value of an ISF cell is   *)
(* in tenths of mg/dL/U, of a carb ratio cell in hundredths of g/U and of  *)
(* a rate cell in thousandths of U/h.  The document stores sensitivity and *)
(* ratio in tenths and the rate of a new basal row in hundredths.          *)
(***************************************************************************)
\* A quotient cut off below its last digit.
RoundDivTruncating(n, d) == n \div d

\* round(n / d) of a float quotient, nearest and ties to even; the cells of
\* the model produce no tie.
RoundDiv(n, d) ==
    LET q == n \div d
        r == n % d
    IN  IF 2 * r > d \/ (2 * r = d /\ q % 2 = 1) THEN q + 1 ELSE q

\* The exception float(cell) raises, or "none".
FloatError(cell) ==
    CASE cell.kind = "number" -> "none"
      [] cell.kind = "text" -> "ValueError"
      [] OTHER -> "TypeError"

\* current_profile.copy(): a new top-level dict holding the same references.
CopyProfile(doc) == doc

\* One row of the first loop; st is [heap, d, exc].
ScalarStep(st, row) ==
    IF st.exc # "none" THEN st
    ELSE IF Contains(row.Parameter.chars, IsfName)
    THEN IF FloatError(row.Autotune) # "none"
         THEN [st EXCEPT !.exc = FloatError(row.Autotune)]
         ELSE IF "isfProfile" \notin st.d.keys
         THEN [st EXCEPT !.exc = "KeyError"]
         ELSE [st EXCEPT !.heap[st.d.isfProfile] = RoundDiv(row.Autotune.value, 18)]
    ELSE IF Contains(row.Parameter.chars, CarbRatioWord)
    THEN IF FloatError(row.Autotune) # "none"
         THEN [st EXCEPT !.exc = FloatError(row.Autotune)]
         ELSE IF "carb_ratios" \notin st.d.keys
         THEN [st EXCEPT !.exc = "KeyError"]
         ELSE [st EXCEPT !.heap[st.d.carb_ratios] = RoundDiv(row.Autotune.value, 10),
                         !.d.carb_ratio = RoundDiv(row.Autotune.value, 10),
                         !.d.keys = @ \cup {"carb_ratio"}]
    ELSE st

RECURSIVE ApplyScalars(_, _)
ApplyScalars(rows, st) ==
    IF rows = <<>> THEN st ELSE ApplyScalars(Tail(rows), ScalarStep(st, Head(rows)))

\* param.split(':')
RECURSIVE Split(_)
Split(s) ==
    IF FirstColon(s) > Len(s) THEN <<s>>
    ELSE <<SplitHead(s)>> \o Split(SplitTail(s))

\* zip(ftr, map(int, parts)): the first three parts only.
ZippedParts(param) ==
    SubSeq(Split(param), 1, Min(3, Len(Split(param))))

TimeFactors == <<3600, 60, 1>>

Seconds(param) ==
    SeqSum([i \in 1..Len(ZippedParts(param)) |->
              TimeFactors[i] * ParseInt(ZippedParts(param)[i]).v])

\* f'{hour:02d}:00:00' for an hour of 0..23.
HourStart(hour) ==
    <<Digits[(hour \div 10) + 1], Digits[(hour % 10) + 1], ":", "0", "0", ":", "0", "0">>

\* The row of the basal schedule built for an hour; the rate is the text
\* f"{rate:.2f}", held in hundredths.
BasalUpdate(hour, cell) ==
    [i |-> hour, minutes |-> 60 * hour, start |-> HourStart(hour),
     rate |-> RoundDiv(cell.value, 10)]

\* Rows of non-time parameters are skipped.
SkippedParameter(chars) ==
    \/ \E k \in 1..Len(chars) : IsAlpha(chars[k])
    \/ ~\E k \in 1..Len(chars) : chars[k] = ":"

\* One row of the second loop; st is [updates, exc].  A ValueError is caught
\* inside the loop and skips the row; any other exception leaves the loop.
BasalStep(st, row) ==
    IF st.exc # "none" THEN st
    ELSE IF row.Parameter.kind # "text" THEN [st EXCEPT !.exc = "TypeError"]
    ELSE IF SkippedParameter(row.Parameter.chars) THEN st
    ELSE IF \E k \in 1..Len(ZippedParts(row.Parameter.chars)) :
               ~ParseInt(ZippedParts(row.Parameter.chars)[k]).ok
    THEN st
    ELSE LET hour == Seconds(row.Parameter.chars) \div 3600
         IN  IF ~(0 <= hour /\ hour < 24) THEN st
             ELSE IF FloatError(row.Autotune) = "ValueError" THEN st
             ELSE IF FloatError(row.Autotune) # "none"
             THEN [st EXCEPT !.exc = FloatError(row.Autotune)]
             ELSE [st EXCEPT !.updates = Append(@, BasalUpdate(hour, row.Autotune))]

RECURSIVE CollectBasal(_, _)
CollectBasal(rows, st) ==
    IF rows = <<>> THEN st ELSE CollectBasal(Tail(rows), BasalStep(st, Head(rows)))

\* sorted(basal_updates, key=lambda x: x['i']): a stable insertion sort.
RECURSIVE InsertByIndex(_, _)
InsertByIndex(sorted, x) ==
    IF sorted = <<>> THEN <<x>>
    ELSE IF sorted[Len(sorted)].i <= x.i THEN Append(sorted, x)
    ELSE Append(InsertByIndex(SubSeq(sorted, 1, Len(sorted) - 1), x), sorted[Len(sorted)])

\* The updates in the order of their recommendations.
KeepOrder(s) == s

RECURSIVE SortByIndex(_)
SortByIndex(s) ==
    IF s = <<>> THEN <<>>
    ELSE InsertByIndex(SortByIndex(SubSeq(s, 1, Len(s) - 1)), s[Len(s)])

\* A merge that stores the collected rows as the schedule even when there
\* are none.
CreateAdjustedProfileAlwaysReplacing(rows, doc, h) ==
    LET scalars == ApplyScalars(rows, [heap |-> h, d |-> CopyProfile(doc), exc |-> "none"])
        basal == CollectBasal(rows, [updates |-> <<>>, exc |-> "none"])
    IN  IF scalars.exc # "none" \/ basal.exc # "none"
        THEN [profile |-> doc, heap |-> scalars.heap, outcome |-> "except"]
        ELSE [profile |-> [scalars.d EXCEPT !.basalprofile = SortByIndex(basal.updates),
                                            !.keys = @ \cup {"basalprofile"}],
              heap |-> scalars.heap, outcome |-> "ok"]

\* The returned document, the heap after the call, and whether the handler
\* of "except Exception" ran.
CreateAdjustedProfile(rows, doc, h) ==
    LET scalars == ApplyScalars(rows, [heap |-> h, d |-> CopyProfile(doc), exc |-> "none"])
        basal == CollectBasal(rows, [updates |-> <<>>, exc |-> "none"])
    IN  IF scalars.exc # "none" \/ basal.exc # "none"
        THEN [profile |-> doc, heap |-> scalars.heap, outcome |-> "except"]
        ELSE IF basal.updates # <<>>
        THEN [profile |-> [scalars.d EXCEPT !.basalprofile = SortByIndex(basal.updates),
                                            !.keys = @ \cup {"basalprofile"}],
              heap |-> scalars.heap, outcome |-> "ok"]
        ELSE [profile |-> scalars.d, heap |-> scalars.heap, outcome |-> "ok"]

CallCreateAdjustedProfile ==
    /\ outcome = "call"
    /\ LET r == CreateAdjustedProfile(autotune_recomm, current_profile, heap)
       IN  /\ returned_profile' = r.profile
           /\ heap' = r.heap
           /\ outcome' = r.outcome
    /\ UNCHANGED <<current_profile, autotune_recomm>>
    /\ UNCHANGED <<engineVars, modernVars>>

\* What a reader of a document sees: its keys and the values they lead to.
Content(doc, h) ==
    [keys |-> doc.keys,
     sensitivity |-> IF "isfProfile" \in doc.keys THEN h[doc.isfProfile] ELSE 0,
     ratio |-> IF "carb_ratios" \in doc.keys THEN h[doc.carb_ratios] ELSE 0,
     carb_ratio |-> IF "carb_ratio" \in doc.keys THEN doc.carb_ratio ELSE 0,
     basalprofile |-> IF "basalprofile" \in doc.keys THEN doc.basalprofile ELSE <<>>]

Text(chars) == [kind |-> "text", chars |-> chars]

Number(v) == [kind |-> "number", value |-> v]

NotANumber == [kind |-> "text", value |-> 0]

None == [kind |-> "none", value |-> 0]

T0100 == <<"0", "1", ":", "0", "0">>
T0130 == <<"0", "1", ":", "3", "0">>
T2400 == <<"2", "4", ":", "0", "0">>
TNegative == <<"-", "1", ":", "0", "0">>
TEmptyPart == <<"1", ":", ":", "0">>

\* Rows of every kind the two loops tell apart.
RowChoices ==
    {[Parameter |-> Text(IsfName), Autotune |-> Number(470)],
     [Parameter |-> Text(IsfName), Autotune |-> Number(485)],
     [Parameter |-> Text(IsfName), Autotune |-> NotANumber],
     [Parameter |-> Text(CarbRatioName), Autotune |-> Number(1204)],
     [Parameter |-> Text(CarbRatioName), Autotune |-> NotANumber],
     [Parameter |-> Text(T1000), Autotune |-> Number(880)],
     [Parameter |-> Text(T0100), Autotune |-> Number(723)],
     [Parameter |-> Text(T0130), Autotune |-> Number(500)],
     [Parameter |-> Text(T2400), Autotune |-> Number(800)],
     [Parameter |-> Text(TNegative), Autotune |-> Number(800)],
     [Parameter |-> Text(TEmptyPart), Autotune |-> Number(800)],
     [Parameter |-> Text(T2300), Autotune |-> NotANumber],
     [Parameter |-> Text(T2300), Autotune |-> None],
     [Parameter |-> [kind |-> "number", chars |-> <<"7">>], Autotune |-> Number(800)]}

AllKeys == {"isfProfile", "carb_ratios", "carb_ratio", "basalprofile"}

OriginalBasal ==
    <<[i |-> 0, minutes |-> 0, start |-> HourStart(0), rate |-> 50],
      [i |-> 12, minutes |-> 720, start |-> HourStart(12), rate |-> 70]>>

\* The caller's document: sensitivity 2.8 mmol/L/U, carb ratio 10.0 g/U.
InitApply ==
    /\ heap = <<28, 100>>
    /\ current_profile \in
         {[keys |-> k, isfProfile |-> 1, carb_ratios |-> 2, carb_ratio |-> 100,
           basalprofile |-> OriginalBasal] : k \in {AllKeys, AllKeys \ {"carb_ratios"}}}
    /\ autotune_recomm \in SeqsUpTo(RowChoices, MaxRows)
    /\ returned_profile = NoDocument
    /\ outcome = "call"
    /\ EngineIdle
    /\ ModernIdle

NextApply == CallCreateAdjustedProfile

SpecApply == InitApply /\ [][NextApply]_vars

\* C2: whenever an exception occurs during the merge, the returned profile
\* has exactly the content the caller passed in.
C2_FailureReturnsOriginalContent ==
    [][(outcome = "call" /\ outcome' = "except")
         => Content(returned_profile', heap') = Content(current_profile, heap)]_vars

\* C3: a successful call leaves the caller's document, nested sensitivity
\* and carb-ratio entries included, with the values it had before the call.
C3_InputNotMutated ==
    [][(outcome = "call" /\ outcome' = "ok")
         => Content(current_profile', heap') = Content(current_profile, heap)]_vars

IsfRows ==
    {k \in 1..Len(autotune_recomm) : autotune_recomm[k].Parameter = Text(IsfName)}

\* C19: after a successful call on a recommendation set with an ISF row, the
\* first sensitivity entry of the returned profile is the Autotune value of
\* the (last) ISF row divided by 18 and rounded to one decimal: the tenth
\* nearest to the quotient.
C19_IsfConversion ==
    (outcome = "ok" /\ IsfRows # {}) =>
        LET last == CHOOSE k \in IsfRows : \A j \in IsfRows : j <= k
            v == autotune_recomm[last].Autotune.value
            sens == Content(returned_profile, heap).sensitivity
        IN  /\ 18 * sens - v <= 9
            /\ v - 18 * sens <= 9

\* ISF 47.0 becomes 2.6 in the returned profile.
C19_Witness ==
    /\ outcome = "ok"
    /\ \E k \in IsfRows :
         /\ autotune_recomm[k].Autotune = Number(470)
         /\ \A j \in IsfRows : j <= k
    /\ Content(returned_profile, heap).sensitivity = 26

\* The hour a time-valued parameter text names, as a one-element sequence;
\* the empty sequence for any other text.
LabelHour(chars) ==
    CASE chars = T0100 -> <<1>>
      [] chars = T0130 -> <<1>>
      [] chars = T1000 -> <<10>>
      [] chars = T2300 -> <<23>>
      [] chars = T2400 -> <<24>>
      [] chars = TNegative -> <<-1>>
      [] OTHER -> <<>>

\* The time-valued recommendations whose hour is in 0..23.
RowsInRange ==
    {k \in 1..Len(autotune_recomm) :
        /\ autotune_recomm[k].Parameter.kind = "text"
        /\ LabelHour(autotune_recomm[k].Parameter.chars) # <<>>
        /\ LabelHour(autotune_recomm[k].Parameter.chars)[1] \in 0..23}

\* Those of them whose Autotune value is a number.
NumericRowsInRange == {k \in RowsInRange : autotune_recomm[k].Autotune.kind = "number"}

\* The returned basal schedule has one row per recommendation of S and no
\* other row, each with index = hour, minutes = 60 * hour and start
\* HH:00:00, in ascending order of the index.
ScheduleIsExactly(S) ==
    LET b == returned_profile.basalprofile
    IN  /\ Len(b) = Cardinality(S)
        /\ \A h \in 0..23 :
             Cardinality({j \in 1..Len(b) : b[j].i = h})
               = Cardinality({k \in S : LabelHour(autotune_recomm[k].Parameter.chars) = <<h>>})
        /\ \A j \in 1..Len(b) :
             /\ b[j].minutes = 60 * b[j].i
             /\ Len(b[j].start) = 8
             /\ ParseInt(SubSeq(b[j].start, 1, 2)).v = b[j].i
             /\ SubSeq(b[j].start, 3, 8) = <<":", "0", "0", ":", "0", "0">>
        /\ \A j, k \in 1..Len(b) : j < k => b[j].i <= b[k].i

\* C20 as stated: after a successful call with at least one time-valued
\* recommendation of an hour in 0..23, the returned basal schedule consists
\* exactly of one row per such recommendation.
C20_BasalRowsPerTimeRow ==
    (outcome = "ok" /\ RowsInRange # {}) => ScheduleIsExactly(RowsInRange)

\* C20 amended: after a successful call in which at least one row survives,
\* the returned basal schedule consists exactly of one row per time-valued
\* recommendation whose hour is in 0..23 and whose Autotune value is a
\* number, with index = hour, minutes = 60 * hour and start HH:00:00, in
\* ascending order of the index; no row of the previous schedule remains.
C20_BasalRowsPerNumericTimeRow ==
    (outcome = "ok" /\ NumericRowsInRange # {}) => ScheduleIsExactly(NumericRowsInRange)

\* Rows 10:00, 24:00 and 01:00: the schedule is the rows of hours 1 and 10.
C20_Witness ==
    /\ outcome = "ok"
    /\ Len(autotune_recomm) = 3
    /\ autotune_recomm[1].Parameter = Text(T1000)
    /\ autotune_recomm[2].Parameter = Text(T2400)
    /\ autotune_recomm[3].Parameter = Text(T0100)
    /\ Len(returned_profile.basalprofile) = 2
    /\ returned_profile.basalprofile[1].i = 1
    /\ returned_profile.basalprofile[2].i = 10

\* C27: the returned basal schedule has at most one row per hour index, also
\* when several time labels lie inside the same hour (01:00 and 01:30).
\* Stated for recommendation sets whose parameters are all different.
C27_OneRowPerHourIndex ==
    (/\ outcome = "ok"
     /\ \A j, k \in 1..Len(autotune_recomm) :
          j # k => autotune_recomm[j].Parameter # autotune_recomm[k].Parameter) =>
        \A j, k \in 1..Len(returned_profile.basalprofile) :
            j # k => returned_profile.basalprofile[j].i # returned_profile.basalprofile[k].i

CarbRatioRows ==
    {k \in 1..Len(autotune_recomm) : autotune_recomm[k].Parameter = Text(CarbRatioName)}

\* C28: when no recommendation yields a valid basal row (no time-valued
\* parameter, every hour out of range, or every rate unparsable), the
\* returned profile has the basal schedule of the input, and the ISF and
\* CarbRatio rows are applied: sensitivity is the last ISF value / 18 and
\* both carb ratio fields are the last CarbRatio value, to one decimal.
C28_NoBasalRowKeepsSchedule ==
    (outcome = "ok" /\ NumericRowsInRange = {}) =>
        /\ "basalprofile" \in returned_profile.keys
        /\ returned_profile.basalprofile = current_profile.basalprofile
        /\ returned_profile.basalprofile = OriginalBasal
        /\ IsfRows # {} =>
             LET last == CHOOSE k \in IsfRows : \A j \in IsfRows : j <= k
                 v == autotune_recomm[last].Autotune.value
                 sens == Content(returned_profile, heap).sensitivity
             IN  18 * sens - v <= 9 /\ v - 18 * sens <= 9
        /\ CarbRatioRows # {} =>
             LET last == CHOOSE k \in CarbRatioRows : \A j \in CarbRatioRows : j <= k
                 v == autotune_recomm[last].Autotune.value
                 c == Content(returned_profile, heap)
             IN  /\ 10 * c.ratio - v <= 5 /\ v - 10 * c.ratio <= 5
                 /\ c.carb_ratio = c.ratio

\* ISF 47.0, a row of hour 24 and CarbRatio 12.04: the schedule is the
\* input's, sensitivity is 2.6 and the carb ratio 12.0.
C28_Witness ==
    /\ outcome = "ok"
    /\ Len(autotune_recomm) = 3
    /\ autotune_recomm[1] = [Parameter |-> Text(IsfName), Autotune |-> Number(470)]
    /\ autotune_recomm[2] = [Parameter |-> Text(T2400), Autotune |-> Number(800)]
    /\ autotune_recomm[3] = [Parameter |-> Text(CarbRatioName), Autotune |-> Number(1204)]
    /\ returned_profile.basalprofile = OriginalBasal
    /\ Content(returned_profile, heap).sensitivity = 26
    /\ Content(returned_profile, heap).ratio = 120

(***************************************************************************)
(* Autotune.run_modern, called by several callers on one Autotune object.  *)
(***************************************************************************)
\* run_autotune as one call: the result of the stages above, in their order.
RunAutotune(site, cfg, aggressive) ==
    LET readings == GetEntries(site.entries)
        trts == GetTreatments(site.treatments)
        doc == site.profile[1]
        p == doc.store[doc.defaultProfile]
        devs == CalculateDeviations(readings, trts, p)
    IN  IF ~DatesParse(cfg)
        THEN ErrorResultFor(cfg, "time data does not match format")
        ELSE IF site.failing # {}
        THEN ErrorResultFor(cfg, "request failed")
        ELSE IF site.profile = <<>>
        THEN ErrorResultFor(cfg, "No profile data found in Nightscout")
        ELSE IF doc.defaultProfile \notin DOMAIN doc.store
        THEN ErrorResultFor(cfg, doc.defaultProfile)
        ELSE IF InsufficientData(readings)
        THEN ErrorResultFor(cfg, "Insufficient BG readings for autotune analysis")
        ELSE IF CalculateDeviationsRaises(readings, trts, p)
        THEN ErrorResultFor(cfg, "list index out of range")
        ELSE IF CalculateRecommendationsRaises(devs, p)
        THEN ErrorResultFor(cfg, "list index out of range")
        ELSE [status |-> "success",
              config |-> cfg,
              data_summary |-> [bg_readings |-> Len(readings),
                                treatments |-> Len(trts),
                                deviations |-> Len(devs)],
              recommendations |-> CalculateRecommendations(devs, p, aggressive),
              profile |-> p]

Callers == {"first", "second"}

\* url_validator: urlparse finds a scheme and a host in these texts only.
ValidUrls == {"https://a.example", "https://b.example", "https://c.example",
              "ftp://a.example"}

\* The URLs a request can be sent to and answered from.
Reachable == {"https://a.example", "https://b.example", "https://c.example"}

\* A validator that accepts every text.
UrlValidatorAcceptsAll(url) == TRUE

UrlValidator(url) == url \in ValidUrls

SiteTokens == [u \in Reachable |-> IF u = "https://a.example" THEN "secret-a"
                                   ELSE IF u = "https://b.example" THEN "secret-b"
                                   ELSE "secret-c"]

\* What the site of a URL answers to a client that presents the token: site a
\* holds ten readings rising by 15 and a rate of 0.8, site b ten readings
\* rising by 25 and a rate of 4.8, site c a single reading; a wrong token
\* fails every request, and so does a URL no request can be sent to.
SiteOf(url, token) ==
    [entries |-> IF url = "https://c.example" THEN UniformEntries(600, 15, 1)
                 ELSE UniformEntries(600, IF url = "https://a.example" THEN 15 ELSE 25,
                                     MinReadings),
     treatments |-> <<>>,
     profile |-> <<ProfileDocument("Default",
                     ProfileOf(<<50>>, <<10>>,
                               <<BasalEntry(T1000, IF url = "https://a.example" THEN 800 ELSE 4800)>>))>>,
     failing |-> IF url \in Reachable /\ token = SiteTokens[url] THEN {} ELSE Endpoints]

\* The day of each date text, and the day the data of the sites was recorded.
DayOf == [d \in ValidDates |-> IF d = "2025-11-04" THEN 4 ELSE 5]

DataDay == 4

\* The find[date] and find[created_at] parameters: the site answers with the
\* items between the start of start_date and the end of end_date.
Answer(site, cfg) ==
    IF DatesParse(cfg) /\ ~(DayOf[cfg.start_date] <= DataDay /\ DataDay <= DayOf[cfg.end_date])
    THEN [site EXCEPT !.entries = <<>>, !.treatments = <<>>]
    ELSE site

EngineFor(nightscout, token, aggressive) ==
    [built |-> TRUE, url |-> nightscout, token |-> token, aggressive |-> aggressive]

ConfigFor(a) == [start_date |-> a.start_date, end_date |-> a.end_date]

NoneValue == [kind |-> "None", rows |-> <<>>]

DataFrame(recs) == [kind |-> "DataFrame", rows |-> recs]

\* The arguments of one run_modern call.
ArgChoices ==
    {[nightscout |-> "https://a.example", token |-> "secret-a", aggressive_mode |-> FALSE,
      start_date |-> "2025-11-04", end_date |-> "2025-11-05"],
     [nightscout |-> "https://a.example", token |-> "secret-a", aggressive_mode |-> TRUE,
      start_date |-> "2025-11-04", end_date |-> "2025-11-05"],
     [nightscout |-> "https://b.example", token |-> "secret-b", aggressive_mode |-> FALSE,
      start_date |-> "2025-11-04", end_date |-> "2025-11-05"],
     [nightscout |-> "https://b.example", token |-> "secret-a", aggressive_mode |-> FALSE,
      start_date |-> "2025-11-04", end_date |-> "2025-11-05"],
     [nightscout |-> "nightscout", token |-> "secret-a", aggressive_mode |-> FALSE,
      start_date |-> "2025-11-04", end_date |-> "2025-11-05"],
     [nightscout |-> "https://a.example", token |-> "secret-a", aggressive_mode |-> FALSE,
      start_date |-> "2025-11-04", end_date |-> "last week"],
     [nightscout |-> "https://a.example", token |-> "secret-a", aggressive_mode |-> FALSE,
      start_date |-> "2025-11-05", end_date |-> "2025-11-04"],
     [nightscout |-> "ftp://a.example", token |-> "secret-a", aggressive_mode |-> FALSE,
      start_date |-> "2025-11-04", end_date |-> "2025-11-05"],
     [nightscout |-> "https://a.example", token |-> "secret-a", aggressive_mode |-> FALSE,
      start_date |-> "2025-11-05", end_date |-> "2025-11-05"],
     [nightscout |-> "https://c.example", token |-> "secret-c", aggressive_mode |-> FALSE,
      start_date |-> "2025-11-04", end_date |-> "2025-11-05"]}

\* if not self.url_validator(nightscout): raise ValueError, caught: return None.
ValidateUrl(t) ==
    /\ threads[t].pc = "validate"
    /\ IF UrlValidator(threads[t].args.nightscout)
       THEN threads' = [threads EXCEPT ![t].pc = "build"]
       ELSE threads' = [threads EXCEPT ![t].pc = "done", ![t].ret = NoneValue]
    /\ UNCHANGED <<autotune_engine, files>>
    /\ UNCHANGED <<engineVars, applierVars>>

\* self.autotune_engine = AutotuneEngine(nightscout, token, aggressive_mode)
BuildEngine(t) ==
    /\ threads[t].pc = "build"
    /\ autotune_engine' = EngineFor(threads[t].args.nightscout, threads[t].args.token,
                                    threads[t].args.aggressive_mode)
    /\ threads' = [threads EXCEPT ![t].pc = "run"]
    /\ UNCHANGED files
    /\ UNCHANGED <<engineVars, applierVars>>

\* result = self.autotune_engine.run_autotune(config): the engine the
\* attribute holds at this moment runs with this caller's config.
RunEngine(t) ==
    /\ threads[t].pc = "run"
    /\ threads' = [threads EXCEPT
         ![t].pc = "check",
         ![t].engine = autotune_engine,
         ![t].result = RunAutotune(Answer(SiteOf(autotune_engine.url, autotune_engine.token),
                                          ConfigFor(threads[t].args)),
                                   ConfigFor(threads[t].args),
                                   autotune_engine.aggressive)]
    /\ UNCHANGED <<autotune_engine, files>>
    /\ UNCHANGED <<engineVars, applierVars>>

CheckStatus(t) ==
    /\ threads[t].pc = "check"
    /\ IF threads[t].result.status # "success"
       THEN threads' = [threads EXCEPT ![t].pc = "done", ![t].ret = NoneValue]
       ELSE threads' = [threads EXCEPT ![t].pc = "save"]
    /\ UNCHANGED <<autotune_engine, files>>
    /\ UNCHANGED <<engineVars, applierVars>>

ResultFile(t) ==
    [name |-> "autotune_result", start_date |-> threads[t].args.start_date,
     content |-> threads[t].result]

CsvFile(t) ==
    [name |-> "recommendations", start_date |-> threads[t].args.start_date,
     content |-> threads[t].result.recommendations]

\* A file written under a name replaces the file of that name.
WriteFile(fs, f) ==
    {g \in fs : ~(g.name = f.name /\ g.start_date = f.start_date)} \cup {f}

\* A save whose failure makes run_modern return None.
SaveResultsOrNone(t) ==
    /\ threads[t].pc = "save"
    /\ \E written \in 0..2 :
         /\ files' = IF written = 0 THEN files
                      ELSE IF written = 1 THEN WriteFile(files, ResultFile(t))
                      ELSE IF threads[t].result.recommendations = <<>>
                      THEN WriteFile(files, ResultFile(t))
                      ELSE WriteFile(WriteFile(files, ResultFile(t)), CsvFile(t))
         /\ threads' = [threads EXCEPT
                          ![t].pc = "done",
                          ![t].ret = IF written < 2 THEN NoneValue
                                     ELSE DataFrame(threads[t].result.recommendations)]
    /\ UNCHANGED autotune_engine
    /\ UNCHANGED <<engineVars, applierVars>>

\* _save_results writes the JSON file and then the CSV file; an exception at
\* either write is caught and logged.  Then run_modern returns the DataFrame.
SaveResults(t) ==
    /\ threads[t].pc = "save"
    /\ \E written \in 0..2 :
         files' = IF written = 0 THEN files
                  ELSE IF written = 1 THEN WriteFile(files, ResultFile(t))
                  ELSE IF threads[t].result.recommendations = <<>>
                  THEN WriteFile(files, ResultFile(t))
                  ELSE WriteFile(WriteFile(files, ResultFile(t)), CsvFile(t))
    /\ threads' = [threads EXCEPT ![t].pc = "done",
                                  ![t].ret = DataFrame(threads[t].result.recommendations)]
    /\ UNCHANGED autotune_engine
    /\ UNCHANGED <<engineVars, applierVars>>

InitModern ==
    /\ autotune_engine = NoEngine
    /\ threads \in [Callers -> {[pc |-> "validate", args |-> a, engine |-> NoEngine,
                                 result |-> NoResult, ret |-> NoneValue] : a \in ArgChoices}]
    /\ files = {}
    /\ EngineIdle
    /\ ApplierIdle

NextModern ==
    \E t \in Callers :
        \/ ValidateUrl(t)
        \/ BuildEngine(t)
        \/ RunEngine(t)
        \/ CheckStatus(t)
        \/ SaveResults(t)

SpecModern == InitModern /\ [][NextModern]_vars

\* What run_modern returns for these arguments when no other call interleaves.
RunModernAlone(a) ==
    IF ~UrlValidator(a.nightscout) THEN NoneValue
    ELSE LET r == RunAutotune(Answer(SiteOf(a.nightscout, a.token), ConfigFor(a)),
                              ConfigFor(a), a.aggressive_mode)
         IN  IF r.status # "success" THEN NoneValue ELSE DataFrame(r.recommendations)

\* C5: each of two interleaved run_modern calls on the shared Autotune object
\* runs the engine built from its own URL, token and aggressive-mode flag,
\* and returns what its own arguments alone determine.
C5_RunsAreIndependent ==
    \A t \in Callers :
        /\ threads[t].pc \in {"check", "save", "done"} /\ UrlValidator(threads[t].args.nightscout)
             => threads[t].engine = EngineFor(threads[t].args.nightscout,
                                              threads[t].args.token,
                                              threads[t].args.aggressive_mode)
        /\ threads[t].pc = "done" => threads[t].ret = RunModernAlone(threads[t].args)

(***************************************************************************)
(* NightscoutClient.get_entries and get_treatments called on what the      *)
(* remote source sends, in whatever order it sends it.                     *)
(***************************************************************************)
MaxRaw == 3

\* Entries of the canonical type with a value, without a value, and of
\* another type, at three timestamps.
RawEntryChoices ==
    {[date |-> d, sgv |-> k.sgv, type |-> k.type] :
        d \in {600, 605, 610},
        k \in {[sgv |-> 100, type |-> "sgv"], [sgv |-> 0, type |-> "sgv"],
               [sgv |-> 100, type |-> "mbg"]}}

\* Valid and invalid treatments at three timestamps.
RawTreatmentChoices ==
    {RemoteTreatment(ts, Bolus, valid) : ts \in {600, 605, 610}, valid \in BOOLEAN}

CallGetEntries ==
    /\ pc = "call_entries"
    /\ bg_readings' = GetEntries(remote.entries)
    /\ pc' = "call_treatments"
    /\ UNCHANGED <<remote, config, aggressive_mode, treatments, profile, deviations_df,
                   recommendations, second_recommendations, fetches, result>>
    /\ UNCHANGED <<applierVars, modernVars>>

CallGetTreatments ==
    /\ pc = "call_treatments"
    /\ treatments' = GetTreatments(remote.treatments)
    /\ pc' = "fetched"
    /\ UNCHANGED <<remote, config, aggressive_mode, bg_readings, profile, deviations_df,
                   recommendations, second_recommendations, fetches, result>>
    /\ UNCHANGED <<applierVars, modernVars>>

InitClient ==
    /\ remote \in {[entries |-> e, treatments |-> <<>>, profile |-> <<>>, failing |-> {}] :
                     e \in SeqsUpTo(RawEntryChoices, MaxRaw)}
                  \cup {[entries |-> <<>>, treatments |-> t, profile |-> <<>>, failing |-> {}] :
                          t \in SeqsUpTo(RawTreatmentChoices, MaxRaw)}
    /\ config = DefaultConfig
    /\ aggressive_mode = FALSE
    /\ bg_readings = <<>>
    /\ treatments = <<>>
    /\ profile = NoProfile
    /\ deviations_df = <<>>
    /\ recommendations = <<>>
    /\ second_recommendations = <<>>
    /\ fetches = NoFetches
    /\ result = NoResult
    /\ pc = "call_entries"
    /\ ApplierIdle
    /\ ModernIdle

NextClient == CallGetEntries \/ CallGetTreatments

SpecClient == InitClient /\ [][NextClient]_vars

\* The number of positions of a sequence that hold the item x.
Occurrences(s, x) == Cardinality({i \in 1..Len(s) : s[i] = x})

Ascending(s) == \A i, j \in 1..Len(s) : i < j => s[i].timestamp <= s[j].timestamp

\* C21: get_entries returns exactly the entries of the canonical type that
\* have a value, and get_treatments exactly the treatments not marked
\* invalid, each as often as the source sent it and ascending by timestamp,
\* whatever the order the source sent them in.
C21_FilteredAndSorted ==
    pc = "fetched" =>
        /\ Ascending(bg_readings)
        /\ Ascending(treatments)
        /\ \A d \in {600, 605, 610} :
             Occurrences(bg_readings, [timestamp |-> d, sgv |-> 100])
               = Occurrences(remote.entries, [date |-> d, sgv |-> 100, type |-> "sgv"])
        /\ \A i \in 1..Len(bg_readings) : bg_readings[i].sgv = 100
        /\ \A ts \in {600, 605, 610} :
             Cardinality({i \in 1..Len(treatments) : treatments[i].timestamp = ts})
               = Occurrences(remote.treatments, RemoteTreatment(ts, Bolus, TRUE))

\* The source sent a later reading, an entry without a value and an earlier
\* reading: two readings come back, the earlier one first.
C21_Witness ==
    /\ pc = "fetched"
    /\ Len(remote.entries) = 3
    /\ remote.entries[1] = [date |-> 610, sgv |-> 100, type |-> "sgv"]
    /\ remote.entries[2] = [date |-> 605, sgv |-> 0, type |-> "sgv"]
    /\ remote.entries[3] = [date |-> 600, sgv |-> 100, type |-> "sgv"]
    /\ bg_readings = <<[timestamp |-> 600, sgv |-> 100], [timestamp |-> 610, sgv |-> 100]>>

\* C22: run_modern never raises and returns None whenever the run cannot
\* succeed: for a URL without scheme and host (no engine is built and
\* run_autotune is never called), for a date text that does not parse or an
\* end date before the start date, and whenever the fetches of the engine it
\* ran were refused or could not be sent.
C22_FailuresReturnNone ==
    \A t \in Callers :
        LET th == threads[t]
        IN  /\ th.pc \in {"validate", "build", "run", "check", "save", "done"}
            /\ th.args.nightscout = "nightscout"
                 => /\ th.pc \in {"validate", "done"}
                    /\ th.engine = NoEngine
                    /\ th.result = NoResult
                    /\ th.pc = "done" => th.ret = NoneValue
            /\ (th.pc = "done" /\ th.args.end_date = "last week") => th.ret = NoneValue
            /\ (th.pc = "done" /\ th.args.start_date = "2025-11-05"
                               /\ th.args.end_date = "2025-11-04") => th.ret = NoneValue
            /\ (th.pc = "done" /\ th.engine.built
                  /\ (\/ th.engine.url \notin Reachable
                      \/ th.engine.token # SiteTokens[th.engine.url]))
                 => th.ret = NoneValue

\* One caller gave a text that is no URL, the other a token the site refuses:
\* both calls have returned None.
C22_Witness ==
    /\ threads["first"].pc = "done"
    /\ threads["first"].args.nightscout = "nightscout"
    /\ threads["first"].ret = NoneValue
    /\ threads["second"].pc = "done"
    /\ threads["second"].engine = EngineFor("https://b.example", "secret-a", FALSE)
    /\ threads["second"].result.status = "error"
    /\ threads["second"].ret = NoneValue

\* The calls with valid inputs whose site answers with at most one reading.
MinimalData(a) ==
    /\ a.nightscout \in Reachable
    /\ a.token = SiteTokens[a.nightscout]
    /\ a.start_date = "2025-11-04" \/ a.start_date = "2025-11-05"
    /\ a.end_date = "2025-11-05"
    /\ Len(Answer(SiteOf(a.nightscout, a.token), ConfigFor(a)).entries) <= 1

\* C23: a call with valid inputs whose source returns no reading or a single
\* reading returns a result that is not None.
C23_MinimalDataReturnsResult ==
    \A t \in Callers :
        (/\ threads[t].pc = "done"
         /\ MinimalData(threads[t].args)
         /\ threads[t].engine = EngineFor(threads[t].args.nightscout, threads[t].args.token,
                                          threads[t].args.aggressive_mode))
          => threads[t].ret # NoneValue

\* C29: files are written only by a call whose engine returned status
\* 'success', at its save step, and whatever that step managed to write the
\* call returns the recommendations it computed.
C29_SaveOnlyAfterSuccess ==
    [][/\ files' # files
          => \E t \in Callers :
                /\ threads[t].pc = "save"
                /\ threads[t].result.status = "success"
                /\ threads'[t].pc = "done"
       /\ \A t \in Callers :
             (threads[t].pc = "save" /\ threads'[t].pc = "done")
                => threads'[t].ret = DataFrame(threads[t].result.recommendations)
       /\ \A t \in Callers :
             (/\ threads[t].pc = "check"
              /\ threads[t].result.status # "success"
              /\ threads'[t] # threads[t])
                => (threads'[t].pc = "done" /\ files' = files)]_vars

\* Both calls succeeded, nothing could be saved, and both returned their
\* recommendations.
C29_Witness ==
    /\ files = {}
    /\ \A t \in Callers :
         /\ threads[t].pc = "done"
         /\ threads[t].result.status = "success"
         /\ threads[t].ret = DataFrame(threads[t].result.recommendations)

====
